---- MODULE Spec2Model ----
(***************************************************************************)
(* A model of the software rasterizer of src/src/math3d/renderer.cpp and   *)
(* of the matrix constructors of src/src/math3d/math3d.h.                  *)
(*                                                                         *)
(* Number representation.  The code computes in binary32 floats; the model *)
(* computes the same expressions exactly, on inputs chosen so that every   *)
(* intermediate value is a small dyadic rational:                          *)
(*   - a screen coordinate is carried in HALF PIXELS (sx = 3 is 1.5 px),   *)
(*     so that a pixel centre x + 0.5 is the integer 2x + 1;               *)
(*   - an NDC coordinate along an axis of dim pixels is carried as the     *)
(*     integer ndc * dim, so that to_screen is exact;                      *)
(*   - an interpolated depth is a reduced fraction <<num, den>>, den > 0;  *)
(*   - a packed colour 0xAARRGGBB is the tuple <<a, r, g, b>>.             *)
(***************************************************************************)
EXTENDS Integers, Sequences, FiniteSets

VARIABLES
    fb,       \* static uint32_t fb[W*H]
    db,       \* static float db[W*H]
    acc,      \* history: the buffer indices fb_set has read or written
    pc,       \* where the program is
    tris,     \* input: the triangles handed to draw_triangle this frame
    ndrawn,   \* how many of them have been drawn
    calls,    \* history: per draw_triangle call, the fb_set calls it made
    frags,    \* history: per pixel, the fragments submitted since fb_clear
    nset,     \* number of direct fb_set calls since fb_clear
    running,  \* main: bool running
    yaw,      \* main: float yaw, in units of 0.002 rad
    pitch,    \* main: float pitch, in units of 0.002 rad
    dt,       \* main: float dt, in milliseconds
    event,    \* main: SDL_Event e, the event polled last
    face,     \* draw_cube: int f
    frame,    \* history: the number of the current iteration of the loop
    quitSeen, \* history: the iteration that first polled SDL_QUIT or an
              \* Escape key-down, 0 if none has
    trace,    \* history: the steps the current iteration has run
    bufLog,   \* history: the writes made to fb and db since the last clear
    shown,    \* history: what SDL_UpdateTexture was last handed
    args,     \* input: the arguments of the matrix constructors
    res       \* the matrices built from args and the points they transform

rasterVars == <<fb, db, acc, tris, ndrawn, calls, frags, nset>>
loopVars == <<running, yaw, pitch, dt, event, face, frame, quitSeen, trace,
              bufLog, shown>>
mathVars == <<args, res>>
vars == <<fb, db, acc, pc, tris, ndrawn, calls, frags, nset, running, yaw,
          pitch, dt, event, face, frame, quitSeen, trace, bufLog, shown,
          args, res>>

----------------------------------------------------------------------------
(* Bounds of the model *)

\* framebuffer width and height in pixels (1280 x 720 in the code)
W == 3
H == 2
\* stands for FLT_MAX: larger than every finite depth the model submits
FltMax == 1000
\* stands for INT_MAX in pixels: a float beyond it has no defined (int) value
IntLimit == 5
\* number of direct fb_set calls explored after one fb_clear
MaxSets == 3
\* number of iterations of the frame loop explored
MaxFrames == 3
\* largest |yaw| explored, in units of 0.002 rad
MaxYaw == 1200

\* program constants
\* the pitch clamp of line 302, 1.5 rad, in units of 0.002 rad
PitchLimit == 750
\* the number of cube faces, line 232
NFaces == 6

----------------------------------------------------------------------------
(* Exact arithmetic helpers *)

Abs(n) == IF n < 0 THEN -n ELSE n

RECURSIVE GCD(_, _)
GCD(a, b) == IF b = 0 THEN a ELSE GCD(b, a % b)

\* the fraction n/d (d > 0) in lowest terms
Rat(n, d) ==
    LET g == GCD(Abs(n), d) IN <<n \div g, d \div g>>

Min2(a, b) == IF b < a THEN b ELSE a
Max2(a, b) == IF a < b THEN b ELSE a
Min3(a, b, c) == Min2(Min2(a, b), c)
Max3(a, b, c) == Max2(Max2(a, b), c)

\* float comparison a < b on depths
DepthLess(a, b) == a[1] * b[2] < b[1] * a[2]

FLT_MAX == <<FltMax, 1>>

----------------------------------------------------------------------------
(* Framebuffer: renderer.cpp lines 129-143 *)

Pixels == 0 .. (W * H - 1)

ZeroColor == <<0, 0, 0, 0>>
ClearColor == <<255, 26, 26, 46>>

\* static uint32_t fb[W*H]; static float db[W*H];  (zero-initialised statics)
StaticBuffers == [fb |-> [i \in Pixels |-> ZeroColor],
                  db |-> [i \in Pixels |-> <<0, 1>>],
                  acc |-> {}]

\* for (i = 0; i < W*H; i++) { fb[i] = color; db[i] = FLT_MAX; }
fb_clear(color) == [fb |-> [i \in Pixels |-> color],
                    db |-> [i \in Pixels |-> FLT_MAX],
                    acc |-> {}]

\* db[idx] as the code reads it; an index outside the array is recorded in
\* acc by the caller and reads as the sentinel
Load(buf, idx) == IF idx \in Pixels THEN buf.db[idx] ELSE FLT_MAX

\* { db[idx] = depth; fb[idx] = color; }
Store(buf, idx, depth, color) ==
    IF idx \in Pixels
    THEN [fb |-> [buf.fb EXCEPT ![idx] = color],
          db |-> [buf.db EXCEPT ![idx] = depth],
          acc |-> buf.acc \cup {idx}]
    ELSE [buf EXCEPT !.acc = buf.acc \cup {idx}]

Touch(buf, idx) == [buf EXCEPT !.acc = buf.acc \cup {idx}]

\* fb_set with the depth test written <= : a tie overwrites
fb_set_tie_overwrites(buf, x, y, depth, color) ==
    IF x < 0 \/ x >= W \/ y < 0 \/ y >= H THEN buf
    ELSE LET idx == y * W + x IN
         IF ~DepthLess(Load(buf, idx), depth)
         THEN Store(buf, idx, depth, color)
         ELSE Touch(buf, idx)

\* fb_set without the depth test
fb_set_untested(buf, x, y, depth, color) ==
    IF x < 0 \/ x >= W \/ y < 0 \/ y >= H THEN buf
    ELSE Store(buf, y * W + x, depth, color)

fb_set(buf, x, y, depth, color) ==
    IF x < 0 \/ x >= W \/ y < 0 \/ y >= H THEN buf
    ELSE LET idx == y * W + x IN
         IF DepthLess(depth, Load(buf, idx))
         THEN Store(buf, idx, depth, color)
         ELSE Touch(buf, idx)

----------------------------------------------------------------------------
(* Rasterizer: renderer.cpp lines 147-199 *)

\* struct Vertex { vec3d pos; float depth; uint32_t color; }
\* (draw_triangle never reads pos.z, so pos is <<x, y>>)
Vertex(x, y, depth, color) == [pos |-> <<x, y>>, depth |-> depth, color |-> color]

edge(ax, ay, bx, by, px, py) ==
    (bx - ax) * (py - ay) - (by - ay) * (px - ax)

\* (ndc * 0.5f + 0.5f) * dim, in half pixels, for ndc carried as ndc * dim
to_screen(ndc, dim) == ndc + dim

\* ScreenOf without the vertical flip
ScreenOf_unflipped(t) ==
    [sx0 |-> to_screen(t[1].pos[1], W), sy0 |-> to_screen(t[1].pos[2], H),
     sx1 |-> to_screen(t[2].pos[1], W), sy1 |-> to_screen(t[2].pos[2], H),
     sx2 |-> to_screen(t[3].pos[1], W), sy2 |-> to_screen(t[3].pos[2], H)]

\* the six screen coordinates of a triangle, lines 164-166
ScreenOf(t) ==
    [sx0 |-> to_screen(t[1].pos[1], W), sy0 |-> to_screen(-t[1].pos[2], H),
     sx1 |-> to_screen(t[2].pos[1], W), sy1 |-> to_screen(-t[2].pos[2], H),
     sx2 |-> to_screen(t[3].pos[1], W), sy2 |-> to_screen(-t[3].pos[2], H)]

\* area = edge(sx0, sy0, sx1, sy1, sx2, sy2), lines 169 and 177
AreaOf(t) ==
    LET s == ScreenOf(t) IN edge(s.sx0, s.sy0, s.sx1, s.sy1, s.sx2, s.sy2)

\* (int)f for a float f carried in half pixels: truncation toward zero
Trunc(h) == IF h >= 0 THEN h \div 2 ELSE -((-h) \div 2)

\* The values (int)f can take.  Outside the range of int the conversion is
\* undefined; the builds in use give INT_MIN (x86) or saturate (ARM).
IntCast(h) ==
    IF Trunc(h) > IntLimit THEN {-IntLimit - 1, IntLimit}
    ELSE IF Trunc(h) < -IntLimit - 1 THEN {-IntLimit - 1}
    ELSE {Trunc(h)}

\* BoxOperands with the upper clamps at W and H instead of W-1 and H-1
BoxOperands_clamped_to_size(t) ==
    LET s == ScreenOf(t) IN
    [minx |-> Max2(0, Min3(s.sx0, s.sx1, s.sx2)),
     maxx |-> Min2(2 * W, Max3(s.sx0, s.sx1, s.sx2)),
     miny |-> Max2(0, Min3(s.sy0, s.sy1, s.sy2)),
     maxy |-> Min2(2 * H, Max3(s.sy0, s.sy1, s.sy2))]

\* the operands of the four casts of lines 172-175, in half pixels
BoxOperands(t) ==
    LET s == ScreenOf(t) IN
    [minx |-> Max2(0, Min3(s.sx0, s.sx1, s.sx2)),
     maxx |-> Min2(2 * (W - 1), Max3(s.sx0, s.sx1, s.sx2)),
     miny |-> Max2(0, Min3(s.sy0, s.sy1, s.sy2)),
     maxy |-> Min2(2 * (H - 1), Max3(s.sy0, s.sy1, s.sy2))]

\* every bounding box lines 172-175 can produce
Boxes(t) ==
    LET o == BoxOperands(t) IN
    {[minx |-> a, maxx |-> b, miny |-> c, maxy |-> d] :
        a \in IntCast(o.minx), b \in IntCast(o.maxx),
        c \in IntCast(o.miny), d \in IntCast(o.maxy)}

\* Weights with the second edge taken from v0 to v2 instead of v2 to v0
Weights_edge_reversed(t, x, y) ==
    LET s == ScreenOf(t)
        px == 2 * x + 1
        py == 2 * y + 1
    IN [w0 |-> edge(s.sx1, s.sy1, s.sx2, s.sy2, px, py),
        w1 |-> edge(s.sx0, s.sy0, s.sx2, s.sy2, px, py),
        w2 |-> edge(s.sx0, s.sy0, s.sx1, s.sy1, px, py)]

\* the three edge values at the centre of pixel (x, y), lines 182-185
Weights(t, x, y) ==
    LET s == ScreenOf(t)
        px == 2 * x + 1
        py == 2 * y + 1
    IN [w0 |-> edge(s.sx1, s.sy1, s.sx2, s.sy2, px, py),
        w1 |-> edge(s.sx2, s.sy2, s.sx0, s.sy0, px, py),
        w2 |-> edge(s.sx0, s.sy0, s.sx1, s.sy1, px, py)]

\* line 186: the pixel is kept unless an edge value is negative
Inside(t, x, y) ==
    LET w == Weights(t, x, y) IN ~(w.w0 < 0 \/ w.w1 < 0 \/ w.w2 < 0)

\* one colour channel, lines 192-194: (uint8_t)(w0*c0 + w1*c1 + w2*c2) with
\* the weights already divided by the area; the cast truncates
Channel(w, area, c0, c1, c2) ==
    (w.w0 * c0 + w.w1 * c1 + w.w2 * c2) \div area

\* the fragment handed to fb_set for a pixel that passed the inside test
Fragment(t, x, y) ==
    LET w == Weights(t, x, y)
        area == AreaOf(t)
        depth == Rat(w.w0 * t[1].depth + w.w1 * t[2].depth + w.w2 * t[3].depth,
                     area)
        r == Channel(w, area, t[1].color[2], t[2].color[2], t[3].color[2])
        g == Channel(w, area, t[1].color[3], t[2].color[3], t[3].color[3])
        b == Channel(w, area, t[1].color[4], t[2].color[4], t[3].color[4])
    IN [x |-> x, y |-> y, depth |-> depth, color |-> <<255, r, g, b>>]

\* the pixels of the two nested loops of lines 180-181, in loop order
BoxSeq(box) ==
    IF box.maxx < box.minx \/ box.maxy < box.miny THEN << >>
    ELSE LET cols == box.maxx - box.minx + 1
             rows == box.maxy - box.miny + 1
         IN [k \in 1 .. (cols * rows) |->
                <<box.minx + ((k - 1) % cols), box.miny + ((k - 1) \div cols)>>]

RECURSIVE FragmentsFrom(_, _, _)
FragmentsFrom(t, ps, k) ==
    IF k > Len(ps) THEN << >>
    ELSE IF Inside(t, ps[k][1], ps[k][2])
         THEN <<Fragment(t, ps[k][1], ps[k][2])>> \o FragmentsFrom(t, ps, k + 1)
         ELSE FragmentsFrom(t, ps, k + 1)

\* line 169: if (edge(...) <= 0) return;   line 178: if (area == 0) return;
Culled(t) == AreaOf(t) <= 0

\* the fb_set calls draw_triangle makes, in order, for one bounding box
FbSetCalls(t, box) ==
    IF Culled(t) THEN << >> ELSE FragmentsFrom(t, BoxSeq(box), 1)

RECURSIVE ApplyCalls(_, _, _)
ApplyCalls(buf, cs, k) ==
    IF k > Len(cs) THEN buf
    ELSE ApplyCalls(fb_set(buf, cs[k].x, cs[k].y, cs[k].depth, cs[k].color),
                    cs, k + 1)

\* draw_triangle(v0, v1, v2) on the buffers buf
draw_triangle(buf, t, box) == ApplyCalls(buf, FbSetCalls(t, box), 1)

----------------------------------------------------------------------------
(* Inputs of the rasterizer *)

Red == <<255, 231, 76, 60>>      \* face_colors[0], 0xFFE74C3C
Blue == <<255, 52, 152, 219>>    \* face_colors[1], 0xFF3498DB

\* an NDC position from a screen position in half pixels
NdcX(sx) == sx - W
NdcY(sy) == H - sy

\* screen abscissae: beyond the range of int on either side, just left of the
\* screen, the centre of pixel 0, mid-screen, just right of the screen
ScreenXs == {-(2 * IntLimit + 6), -1, 1, W, 2 * W + 1, 2 * IntLimit + 6}
ScreenYs == {-1, 1, H, 2 * H + 1}

\* depth in tenths: flat 0.3, or 0.1 / 0.3 / 0.9 at the three vertices
\* colour: flat red, or red / blue / red
Shadings == {[d |-> <<3, 3, 3>>, c |-> <<Red, Red, Red>>],
             [d |-> <<1, 3, 9>>, c |-> <<Red, Blue, Red>>]}

Tri(p0, p1, p2, sh) ==
    <<Vertex(NdcX(p0[1]), NdcY(p0[2]), sh.d[1], sh.c[1]),
      Vertex(NdcX(p1[1]), NdcY(p1[2]), sh.d[2], sh.c[2]),
      Vertex(NdcX(p2[1]), NdcY(p2[2]), sh.d[3], sh.c[3])>>

\* single triangles of every orientation, on and off the screen
SingleTris ==
    {Tri(p0, p1, p2, sh) : p0 \in ScreenXs \X ScreenYs,
                           p1 \in ScreenXs \X ScreenYs,
                           p2 \in ScreenXs \X ScreenYs, sh \in Shadings}

\* the corners of the rectangle that just encloses the screen
Corners == {-1, 2 * W + 1} \X {-1, 2 * H + 1}

\* flat triangles over the screen: depth 0.3 or 0.9, red or blue
FlatShadings == {[d |-> <<z, z, z>>, c |-> <<k, k, k>>] : z \in {3, 9}, k \in {Red, Blue}}

FlatTris ==
    {Tri(p0, p1, p2, sh) : p0 \in Corners, p1 \in Corners, p2 \in Corners,
                           sh \in FlatShadings}

\* a frame draws one triangle, or two flat ones in order
Frames == {<<t>> : t \in SingleTris} \cup (FlatTris \X FlatTris)

----------------------------------------------------------------------------
(* Rasterizer: one step per call, as main() orders them *)

\* SDL_Event e: its type, e.key.keysym.sym, e.motion.xrel, e.motion.yrel
Ev(type, sym, xrel, yrel) ==
    [type |-> type, sym |-> sym, xrel |-> xrel, yrel |-> yrel]

\* no event has been polled yet
NoEvent == Ev("none", "", 0, 0)

\* the locals of main() as lines 281-288 initialise them
MainLocals ==
    /\ running = TRUE
    /\ yaw = 0
    /\ pitch = 0
    /\ dt = 0
    /\ event = NoEvent
    /\ face = 0
    /\ frame = 0
    /\ quitSeen = 0
    /\ trace = << >>
    /\ bufLog = << >>
    /\ shown = [frame |-> 0, log |-> << >>]

\* no matrix has been asked for
NoMath ==
    /\ args = << >>
    /\ res = << >>

InitDraw ==
    /\ MainLocals
    /\ NoMath
    /\ fb = StaticBuffers.fb
    /\ db = StaticBuffers.db
    /\ acc = StaticBuffers.acc
    /\ pc = "static"
    /\ tris \in Frames
    /\ ndrawn = 0
    /\ calls = << >>
    /\ frags = [i \in Pixels |-> {}]
    /\ nset = 0

\* fb_clear(0xFF1A1A2E), renderer.cpp line 328
FbClear ==
    /\ pc \in {"static", "frame"}
    /\ LET buf == fb_clear(ClearColor) IN
         /\ fb' = buf.fb
         /\ db' = buf.db
         /\ acc' = buf.acc
    /\ pc' = "frame"
    /\ ndrawn' = 0
    /\ calls' = << >>
    /\ frags' = [i \in Pixels |-> {}]
    /\ nset' = 0
    /\ UNCHANGED tris
    /\ UNCHANGED loopVars
    /\ UNCHANGED mathVars

\* draw_triangle(v0, v1, v2) on the next triangle of the frame
DrawTriangle ==
    /\ pc = "frame"
    /\ ndrawn < Len(tris)
    /\ LET t == tris[ndrawn + 1] IN
       \E box \in Boxes(t) :
         LET buf == draw_triangle([fb |-> fb, db |-> db, acc |-> acc], t, box) IN
           /\ fb' = buf.fb
           /\ db' = buf.db
           /\ acc' = buf.acc
           /\ calls' = Append(calls, FbSetCalls(t, box))
    /\ ndrawn' = ndrawn + 1
    /\ UNCHANGED <<pc, tris, frags, nset>>
    /\ UNCHANGED loopVars
    /\ UNCHANGED mathVars

NextDraw == FbClear \/ DrawTriangle

SpecDraw == InitDraw /\ [][NextDraw]_vars

----------------------------------------------------------------------------
(* Properties of the rasterizer, checked under SpecDraw *)

SeqToSet(q) == {q[k] : k \in 1 .. Len(q)}

\* what a draw_triangle call covered: the pixels it submitted, with depths
Coverage(cs) == {[x |-> c.x, y |-> c.y, depth |-> c.depth] : c \in SeqToSet(cs)}

\* the frame drew T1 then T2, over the same pixels, with equal depth at each
DrawnWithEqualDepth ==
    /\ pc = "frame"
    /\ ndrawn = 2
    /\ Coverage(calls[1]) = Coverage(calls[2])
    /\ calls[1] # << >>

\* C1 as stated: when T1 and then T2 are drawn over the same pixels with
\* exactly equal depth, every covered pixel ends with T2's colour.
C1_LaterWriteWinsTie ==
    DrawnWithEqualDepth =>
        \A c \in SeqToSet(calls[2]) : fb[c.y * W + c.x] = c.color

\* C1 as the code has it: when T1 and then T2 are drawn over the same pixels
\* with exactly equal depth, every covered pixel keeps T1's colour: on an
\* exact tie the later fragment is discarded.
C1_EarlierWriteWinsTie ==
    DrawnWithEqualDepth =>
        \A c \in SeqToSet(calls[1]) : fb[c.y * W + c.x] = c.color

C1_Witness ==
    /\ DrawnWithEqualDepth
    /\ \E c1 \in SeqToSet(calls[1]), c2 \in SeqToSet(calls[2]) :
          c1.x = c2.x /\ c1.y = c2.y /\ c1.color # c2.color

\* the signed area of a triangle on the screen, y flipped: NDC x, y map to
\* ((x + 1) / 2 * W, (1 - y) / 2 * H); stated here in half pixels
ScreenArea(t) ==
    LET x0 == t[1].pos[1] + W   y0 == H - t[1].pos[2]
        x1 == t[2].pos[1] + W   y1 == H - t[2].pos[2]
        x2 == t[3].pos[1] + W   y2 == H - t[3].pos[2]
    IN (x1 - x0) * (y2 - y0) - (y1 - y0) * (x2 - x0)

\* C3: a draw_triangle call on a triangle whose screen-space signed area is
\* <= 0 (clockwise after the vertical flip, or degenerate) leaves every
\* element of the framebuffer and of the depth buffer unchanged.
C3_CulledTriangleWritesNothing ==
    [][(ndrawn' = ndrawn + 1 /\ ScreenArea(tris[ndrawn']) <= 0)
          => (fb' = fb /\ db' = db)]_vars

\* a clockwise and then a degenerate triangle have both been drawn, over a
\* triangle-free frame
C3_Witness ==
    /\ pc = "frame"
    /\ ndrawn = 2
    /\ ScreenArea(tris[1]) < 0
    /\ ScreenArea(tris[2]) = 0
    /\ tris[2][1].pos # tris[2][2].pos

\* C6: for a counter-clockwise triangle, at every pixel that passed the
\* inside test the three edge values are non-negative and add up to the
\* triangle's area (so the weights are non-negative and sum to 1).
C6_WeightsSumToArea ==
    (pc = "frame" /\ ndrawn >= 1 /\ ScreenArea(tris[ndrawn]) > 0) =>
        \A c \in SeqToSet(calls[ndrawn]) :
            LET w == Weights(tris[ndrawn], c.x, c.y) IN
              /\ w.w0 >= 0 /\ w.w1 >= 0 /\ w.w2 >= 0
              /\ w.w0 + w.w1 + w.w2 = ScreenArea(tris[ndrawn])

\* a pixel strictly inside and a pixel on an edge have both passed
C6_Witness ==
    /\ pc = "frame" /\ ndrawn >= 1 /\ ScreenArea(tris[ndrawn]) > 0
    /\ \E c \in SeqToSet(calls[ndrawn]) :
          LET w == Weights(tris[ndrawn], c.x, c.y) IN
            w.w0 > 0 /\ w.w1 > 0 /\ w.w2 > 0
    /\ \E c \in SeqToSet(calls[ndrawn]) :
          LET w == Weights(tris[ndrawn], c.x, c.y) IN
            w.w0 = 0 \/ w.w1 = 0 \/ w.w2 = 0

\* pixel (x, y) of the screen has its centre inside or on the triangle
CentreCovered(t, x, y) ==
    LET x0 == t[1].pos[1] + W   y0 == H - t[1].pos[2]
        x1 == t[2].pos[1] + W   y1 == H - t[2].pos[2]
        x2 == t[3].pos[1] + W   y2 == H - t[3].pos[2]
        px == 2 * x + 1         py == 2 * y + 1
    IN /\ (x2 - x1) * (py - y1) - (y2 - y1) * (px - x1) >= 0
       /\ (x0 - x2) * (py - y2) - (y0 - y2) * (px - x2) >= 0
       /\ (x1 - x0) * (py - y0) - (y1 - y0) * (px - x0) >= 0

\* C10: for a counter-clockwise triangle, draw_triangle submits a fragment
\* to fb_set for exactly the pixels (x, y) with 0 <= x <= W-1, 0 <= y <= H-1
\* whose centre has three non-negative edge values, and fb_set never reads
\* or writes an index outside the W*H buffers.
C10_SubmitsExactlyCoveredPixels ==
    (pc = "frame" /\ ndrawn >= 1) =>
        /\ acc \subseteq Pixels
        /\ ScreenArea(tris[ndrawn]) > 0 =>
             {<<c.x, c.y>> : c \in SeqToSet(calls[ndrawn])}
               = {p \in (0 .. W - 1) \X (0 .. H - 1) :
                     CentreCovered(tris[ndrawn], p[1], p[2])}

\* a counter-clockwise triangle that reaches off the screen, past the range
\* of int, has been drawn and covered some pixels but not all
C10_Witness ==
    /\ pc = "frame" /\ ndrawn >= 1 /\ ScreenArea(tris[ndrawn]) > 0
    /\ calls[ndrawn] # << >>
    /\ Len(calls[ndrawn]) < W * H
    /\ \E k \in 1 .. 3 : tris[ndrawn][k].pos[1] + W > 2 * IntLimit + 2

----------------------------------------------------------------------------
(* The depth-tested store on its own: fb_clear, then fb_set calls *)

\* pixel coordinates at and just outside each border of the screen
SetXs == {-1, 0, W - 1, W}
SetYs == {-1, 0, H - 1, H}

\* depths 0.1 and 0.9 (in tenths), FLT_MAX itself, and +infinity
INFINITY == <<FltMax + 1, 1>>
SetDepths == {<<1, 1>>, <<9, 1>>, FLT_MAX, INFINITY}

InitFb ==
    /\ MainLocals
    /\ NoMath
    /\ fb = StaticBuffers.fb
    /\ db = StaticBuffers.db
    /\ acc = StaticBuffers.acc
    /\ pc = "static"
    /\ tris = << >>
    /\ ndrawn = 0
    /\ calls = << >>
    /\ frags = [i \in Pixels |-> {}]
    /\ nset = 0

\* fb_set(x, y, depth, color)
FbSet ==
    /\ pc = "frame"
    /\ nset < MaxSets
    /\ \E x \in SetXs, y \in SetYs, depth \in SetDepths, color \in {Red, Blue} :
         /\ LET buf == fb_set([fb |-> fb, db |-> db, acc |-> acc],
                              x, y, depth, color) IN
              /\ fb' = buf.fb
              /\ db' = buf.db
              /\ acc' = buf.acc
         /\ frags' = IF x \in 0 .. W - 1 /\ y \in 0 .. H - 1
                     THEN [frags EXCEPT ![y * W + x] =
                              @ \cup {[depth |-> depth, color |-> color]}]
                     ELSE frags
    /\ nset' = nset + 1
    /\ UNCHANGED <<pc, tris, ndrawn, calls>>
    /\ UNCHANGED loopVars
    /\ UNCHANGED mathVars

NextFb == FbClear \/ FbSet

SpecFb == InitFb /\ [][NextFb]_vars

\* the fragments of a pixel that are nearer than the sentinel
Finite(S) == {f \in S : DepthLess(f.depth, FLT_MAX)}

\* C2: after fb_clear and any fb_set calls, at every pixel db holds the
\* minimum depth of the in-bounds fragments submitted to it and fb the colour
\* of a fragment submitted with exactly that depth; a pixel no fragment was
\* accepted at holds the FLT_MAX sentinel and the clear colour.
C2_NearestFragmentStored ==
    pc = "frame" =>
      \A i \in Pixels :
        IF Finite(frags[i]) = {}
        THEN db[i] = FLT_MAX /\ fb[i] = ClearColor
        ELSE /\ \A f \in frags[i] : ~DepthLess(f.depth, db[i])
             /\ \E f \in frags[i] : f.depth = db[i] /\ f.color = fb[i]

\* a pixel has received a far red fragment and a nearer blue one (in either
\* order) and shows the nearer one
C2_Witness ==
    /\ pc = "frame"
    /\ nset = MaxSets
    /\ \E i \in Pixels :
          /\ [depth |-> <<1, 1>>, color |-> Blue] \in frags[i]
          /\ [depth |-> <<9, 1>>, color |-> Red] \in frags[i]
          /\ fb[i] = Blue
          /\ db[i] = <<1, 1>>

----------------------------------------------------------------------------
(* The frame loop: main(), renderer.cpp lines 271-341 *)

\* mouse deltas e.motion.xrel and e.motion.yrel
XRels == {-500, 500}
YRels == {-800, -300, 300, 800}

\* what SDL_PollEvent can deliver
Events ==
    {Ev("SDL_QUIT", "", 0, 0),
     Ev("SDL_KEYDOWN", "SDLK_ESCAPE", 0, 0),
     Ev("SDL_KEYDOWN", "SDLK_w", 0, 0),
     Ev("SDL_KEYUP", "SDLK_ESCAPE", 0, 0)}
    \cup {Ev("SDL_MOUSEMOTION", "", x, y) : x \in XRels, y \in YRels}

\* the body of while (SDL_PollEvent(&e)) with a quit on any Escape key event
HandleEvent_any_escape(r, e) ==
    LET r1 == IF e.type = "SDL_QUIT" THEN [r EXCEPT !.running = FALSE] ELSE r
        r2 == IF e.sym = "SDLK_ESCAPE"
              THEN [r1 EXCEPT !.running = FALSE] ELSE r1
    IN IF e.type = "SDL_MOUSEMOTION"
       THEN [r2 EXCEPT !.yaw = @ - e.xrel,
                       !.pitch = Max2(-PitchLimit, Min2(PitchLimit, @ - e.yrel))]
       ELSE r2

\* the body of while (SDL_PollEvent(&e)) without the clamp of line 302
HandleEvent_unclamped(r, e) ==
    LET r1 == IF e.type = "SDL_QUIT" THEN [r EXCEPT !.running = FALSE] ELSE r
        r2 == IF e.type = "SDL_KEYDOWN" /\ e.sym = "SDLK_ESCAPE"
              THEN [r1 EXCEPT !.running = FALSE] ELSE r1
    IN IF e.type = "SDL_MOUSEMOTION"
       THEN [r2 EXCEPT !.yaw = @ - e.xrel, !.pitch = @ - e.yrel]
       ELSE r2

\* the body of while (SDL_PollEvent(&e)), lines 297-303, on
\* r = [running, yaw, pitch]
HandleEvent(r, e) ==
    LET r1 == IF e.type = "SDL_QUIT" THEN [r EXCEPT !.running = FALSE] ELSE r
        r2 == IF e.type = "SDL_KEYDOWN" /\ e.sym = "SDLK_ESCAPE"
              THEN [r1 EXCEPT !.running = FALSE] ELSE r1
    IN IF e.type = "SDL_MOUSEMOTION"
       THEN [r2 EXCEPT !.yaw = @ - e.xrel,
                       !.pitch = Max2(-PitchLimit, Min2(PitchLimit, @ - e.yrel))]
       ELSE r2

\* append a step to the iteration's trace; a repeated step is logged once
Log(step) ==
    IF trace # << >> /\ trace[Len(trace)] = step THEN trace
    ELSE Append(trace, step)

BufOp(op, f) == [op |-> op, f |-> f, frame |-> frame]

Init ==
    /\ MainLocals
    /\ NoMath
    /\ fb = StaticBuffers.fb
    /\ db = StaticBuffers.db
    /\ acc = StaticBuffers.acc
    /\ pc = "while"
    /\ tris = << >>
    /\ ndrawn = 0
    /\ calls = << >>
    /\ frags = [i \in Pixels |-> {}]
    /\ nset = 0

\* while (running), line 290
LoopTest ==
    /\ pc = "while"
    /\ IF running
       THEN /\ frame < MaxFrames
            /\ pc' = "ticks"
            /\ frame' = frame + 1
            /\ trace' = << >>
       ELSE /\ pc' = "exit"
            /\ UNCHANGED <<frame, trace>>
    /\ UNCHANGED <<running, yaw, pitch, dt, event, face, quitSeen, bufLog, shown>>
    /\ UNCHANGED rasterVars
    /\ UNCHANGED mathVars

\* now = SDL_GetTicks(); dt = (now - last) / 1000.0f, lines 291-293
Ticks ==
    /\ pc = "ticks"
    /\ dt' \in {0, 16}
    /\ trace' = Log("ticks")
    /\ pc' = "poll"
    /\ UNCHANGED <<running, yaw, pitch, event, face, frame, quitSeen, bufLog, shown>>
    /\ UNCHANGED rasterVars
    /\ UNCHANGED mathVars

\* SDL_PollEvent(&e) delivered an event: one pass of lines 296-304
PollEvent ==
    /\ pc = "poll"
    /\ \E e \in Events :
         /\ Abs(yaw - e.xrel) <= MaxYaw
         /\ event' = e
         /\ LET r == HandleEvent([running |-> running, yaw |-> yaw,
                                  pitch |-> pitch], e) IN
              /\ running' = r.running
              /\ yaw' = r.yaw
              /\ pitch' = r.pitch
         /\ quitSeen' =
              IF quitSeen = 0 /\ (e.type = "SDL_QUIT"
                    \/ (e.type = "SDL_KEYDOWN" /\ e.sym = "SDLK_ESCAPE"))
              THEN frame ELSE quitSeen
    /\ trace' = Log("poll")
    /\ pc' = "poll"
    /\ UNCHANGED <<dt, face, frame, bufLog, shown>>
    /\ UNCHANGED rasterVars
    /\ UNCHANGED mathVars

\* SDL_PollEvent(&e) returned 0: the inner loop ends
PollEmpty ==
    /\ pc = "poll"
    /\ trace' = Log("poll")
    /\ pc' = "camera"
    /\ UNCHANGED <<running, yaw, pitch, dt, event, face, frame, quitSeen, bufLog, shown>>
    /\ UNCHANGED rasterVars
    /\ UNCHANGED mathVars

\* lines 307-320: forward, right and up from yaw and pitch, cam_pos moved
Camera ==
    /\ pc = "camera"
    /\ trace' = Log("camera")
    /\ pc' = "matrices"
    /\ UNCHANGED <<running, yaw, pitch, dt, event, face, frame, quitSeen, bufLog, shown>>
    /\ UNCHANGED rasterVars
    /\ UNCHANGED mathVars

\* lines 323-326: model, view = look_at(...), proj, mvp
Matrices ==
    /\ pc = "matrices"
    /\ trace' = Log("matrices")
    /\ pc' = "clear"
    /\ UNCHANGED <<running, yaw, pitch, dt, event, face, frame, quitSeen, bufLog, shown>>
    /\ UNCHANGED rasterVars
    /\ UNCHANGED mathVars

\* fb_clear(0xFF1A1A2E), line 328, and the entry of draw_cube, line 232
ClearBuffers ==
    /\ pc = "clear"
    /\ bufLog' = <<BufOp("clear", 0)>>
    /\ face' = 0
    /\ trace' = Log("clear")
    /\ pc' = "cube"
    /\ UNCHANGED <<running, yaw, pitch, dt, event, frame, quitSeen, shown>>
    /\ UNCHANGED rasterVars
    /\ UNCHANGED mathVars

\* one pass of the loop of draw_cube, lines 232-266: two draw_triangle calls
DrawFace ==
    /\ pc = "cube"
    /\ face < NFaces
    /\ bufLog' = Append(bufLog, BufOp("face", face))
    /\ face' = face + 1
    /\ trace' = Log("cube")
    /\ UNCHANGED <<pc, running, yaw, pitch, dt, event, frame, quitSeen, shown>>
    /\ UNCHANGED rasterVars
    /\ UNCHANGED mathVars

\* Present one face early
Present_before_last_face ==
    /\ pc = "cube"
    /\ face >= NFaces - 1
    /\ shown' = [frame |-> frame, log |-> bufLog]
    /\ trace' = Log("present")
    /\ pc' = "while"
    /\ UNCHANGED <<running, yaw, pitch, dt, event, face, frame, quitSeen, bufLog>>
    /\ UNCHANGED rasterVars
    /\ UNCHANGED mathVars

\* draw_cube returns; SDL_UpdateTexture(tex, nullptr, fb, ...), SDL_RenderCopy,
\* SDL_RenderPresent, lines 331-333
Present ==
    /\ pc = "cube"
    /\ ~(face < NFaces)
    /\ shown' = [frame |-> frame, log |-> bufLog]
    /\ trace' = Log("present")
    /\ pc' = "while"
    /\ UNCHANGED <<running, yaw, pitch, dt, event, face, frame, quitSeen, bufLog>>
    /\ UNCHANGED rasterVars
    /\ UNCHANGED mathVars

Next ==
    \/ LoopTest
    \/ Ticks
    \/ PollEvent
    \/ PollEmpty
    \/ Camera
    \/ Matrices
    \/ ClearBuffers
    \/ DrawFace
    \/ Present

Spec == Init /\ [][Next]_vars

----------------------------------------------------------------------------
(* Properties of the frame loop, checked under Spec *)

\* the steps of one iteration, in the order of the claim
FullIteration ==
    <<"ticks", "poll", "camera", "matrices", "clear", "cube", "present">>

IsPrefix(p, q) ==
    Len(p) <= Len(q) /\ \A k \in 1 .. Len(p) : p[k] = q[k]

\* the writes of a whole fb_clear followed by a whole draw_cube, made in
\* iteration n
CompleteLog(n) ==
    [k \in 1 .. NFaces + 1 |->
        IF k = 1 THEN [op |-> "clear", f |-> 0, frame |-> n]
        ELSE [op |-> "face", f |-> k - 2, frame |-> n]]

\* C4: every iteration runs poll, camera, matrices, fb_clear, draw_cube (six
\* faces), present in that order; what present is handed is a complete
\* fb_clear followed by a complete draw_cube of the same iteration; and no
\* write of an iteration happens before the previous one was presented.
C4_FrameStepsInOrder ==
    /\ IsPrefix(trace, FullIteration)
    /\ shown.frame > 0 => shown.log = CompleteLog(shown.frame)
    /\ shown.frame = frame /\ frame > 0 => trace = FullIteration
    /\ \A k \in 1 .. Len(bufLog) :
          \/ bufLog[k].frame = frame /\ shown.frame = frame - 1
          \/ bufLog[k].frame = frame /\ shown.frame = frame /\ pc \in {"while", "exit"}
          \/ bufLog[k].frame = frame - 1 /\ shown.frame = frame - 1

\* the second iteration has presented its frame
C4_Witness ==
    /\ pc = "while"
    /\ frame = 2
    /\ shown.frame = 2
    /\ Len(shown.log) = NFaces + 1
    /\ trace = FullIteration

\* C5: pitch lies in [-1.5, 1.5] rad wherever the forward vector is computed
\* and look_at is called, whatever mouse motion was polled; yaw is not
\* clamped: every mouse motion subtracts its xrel from it.
C5_PitchClamped ==
    /\ [](pc \in {"camera", "matrices"} =>
            (-PitchLimit <= pitch /\ pitch <= PitchLimit))
    /\ [][(pc = "poll" /\ pc' = "poll" /\ event'.type = "SDL_MOUSEMOTION")
            => yaw' = yaw - event'.xrel]_vars

\* a motion that would take pitch past the limit was polled, pitch sits on
\* the limit where forward is computed, and yaw is beyond that limit
C5_Witness ==
    /\ pc = "camera"
    /\ event.type = "SDL_MOUSEMOTION"
    /\ event.yrel = -800
    /\ pitch = PitchLimit
    /\ Abs(yaw) > PitchLimit

\* C9: the loop exits if and only if an SDL_QUIT or an Escape key-down was
\* polled, and the iteration that polled it has run its clear, draw and
\* present when the loop exits.
C9_ExitsOnlyOnQuit ==
    /\ [](pc = "exit" =>
            /\ quitSeen = frame
            /\ trace = FullIteration
            /\ shown = [frame |-> frame, log |-> CompleteLog(frame)])
    /\ [][pc = "while" => (pc' = "exit" <=> quitSeen # 0)]_vars

\* the loop has exited in its second iteration, after other keys and mouse
\* motion went by in the first
C9_Witness ==
    /\ pc = "exit"
    /\ frame = 2
    /\ quitSeen = 2
    /\ pitch # 0

----------------------------------------------------------------------------
(* Matrix constructors: math3d.h, and their copies in renderer.cpp *)

\* floats as exact fractions <<num, den>>, den > 0, in lowest terms
R(n) == <<n, 1>>
RNeg(a) == <<-a[1], a[2]>>
RAdd(a, b) == Rat(a[1] * b[2] + b[1] * a[2], a[2] * b[2])
RSub(a, b) == RAdd(a, RNeg(b))
RMul(a, b) == Rat(a[1] * b[1], a[2] * b[2])
\* a / b for b # 0
RDiv(a, b) ==
    IF b[1] < 0 THEN Rat(-(a[1] * b[2]), a[2] * (-b[1]))
    ELSE Rat(a[1] * b[2], a[2] * b[1])

\* angles whose sine, cosine and half-angle tangent are rational
Angles == {"0", "pi/2", "pi", "3pi/2", "atan(3/4)", "-atan(4/3)"}

cosf(a) ==
    CASE a = "0" -> R(1)
      [] a = "pi/2" -> R(0)
      [] a = "pi" -> R(-1)
      [] a = "3pi/2" -> R(0)
      [] a = "atan(3/4)" -> <<4, 5>>
      [] a = "-atan(4/3)" -> <<3, 5>>

sinf(a) ==
    CASE a = "0" -> R(0)
      [] a = "pi/2" -> R(1)
      [] a = "pi" -> R(0)
      [] a = "3pi/2" -> R(-1)
      [] a = "atan(3/4)" -> <<3, 5>>
      [] a = "-atan(4/3)" -> <<-4, 5>>

\* fields of view fov with tanf(fov * 0.5f) rational
Fovs == {"pi/2", "2atan(1/2)", "2atan(2)"}

tanf_half(fov) ==
    CASE fov = "pi/2" -> R(1)
      [] fov = "2atan(1/2)" -> <<1, 2>>
      [] fov = "2atan(2)" -> R(2)

\* mat4 r{}: float m[4][4], column-major m[col][row], all zero
Zero4 == [col \in 0 .. 3 |-> [row \in 0 .. 3 |-> R(0)]]

\* mat4::identity(), math3d.h lines 33-37
identity == [col \in 0 .. 3 |-> [row \in 0 .. 3 |-> IF col = row THEN R(1) ELSE R(0)]]

\* mat4::operator*(const vec3d&), math3d.h lines 49-55: w = 1 and the
\* perspective divide (w # 0 for every point the model transforms)
MulPoint(m, v) ==
    LET x == RAdd(RAdd(RAdd(RMul(v[1], m[0][0]), RMul(v[2], m[1][0])),
                       RMul(v[3], m[2][0])), m[3][0])
        y == RAdd(RAdd(RAdd(RMul(v[1], m[0][1]), RMul(v[2], m[1][1])),
                       RMul(v[3], m[2][1])), m[3][1])
        z == RAdd(RAdd(RAdd(RMul(v[1], m[0][2]), RMul(v[2], m[1][2])),
                       RMul(v[3], m[2][2])), m[3][2])
        w == RAdd(RAdd(RAdd(RMul(v[1], m[0][3]), RMul(v[2], m[1][3])),
                       RMul(v[3], m[2][3])), m[3][3])
    IN <<RDiv(x, w), RDiv(y, w), RDiv(z, w)>>

\* rotateY as it was before the fix noted at math3d.h lines 85-86
rotateY_unfixed(angle) ==
    LET c == cosf(angle)
        s == sinf(angle)
    IN [identity EXCEPT ![0][0] = c, ![2][0] = RNeg(s),
                        ![0][2] = s, ![2][2] = c]

\* rotateY, math3d.h lines 77-89
rotateY(angle) ==
    LET c == cosf(angle)
        s == sinf(angle)
    IN [identity EXCEPT ![0][0] = c, ![2][0] = s,
                        ![0][2] = RNeg(s), ![2][2] = c]

\* rotateY, renderer.cpp lines 83-89
rotateY_renderer(a) ==
    LET c == cosf(a)
        s == sinf(a)
    IN [identity EXCEPT ![0][0] = c, ![2][0] = s,
                        ![0][2] = RNeg(s), ![2][2] = c]

\* perspective with m[2][2] = (far + near) / (far - near)
perspective_flipped(fov, aspect, near, far) ==
    LET f == RDiv(R(1), tanf_half(fov)) IN
    [Zero4 EXCEPT ![0][0] = RDiv(f, aspect),
                  ![1][1] = f,
                  ![2][2] = RDiv(RAdd(far, near), RSub(far, near)),
                  ![2][3] = R(-1),
                  ![3][2] = RDiv(RMul(RMul(R(2), far), near), RSub(near, far))]

\* perspective, math3d.h lines 122-131
perspective(fov, aspect, near, far) ==
    LET f == RDiv(R(1), tanf_half(fov)) IN
    [Zero4 EXCEPT ![0][0] = RDiv(f, aspect),
                  ![1][1] = f,
                  ![2][2] = RDiv(RAdd(far, near), RSub(near, far)),
                  ![2][3] = R(-1),
                  ![3][2] = RDiv(RMul(RMul(R(2), far), near), RSub(near, far))]

\* perspective, renderer.cpp lines 99-108
perspective_renderer(fov, aspect, near, far) ==
    LET f == RDiv(R(1), tanf_half(fov)) IN
    [Zero4 EXCEPT ![0][0] = RDiv(f, aspect),
                  ![1][1] = f,
                  ![2][2] = RDiv(RAdd(far, near), RSub(near, far)),
                  ![2][3] = R(-1),
                  ![3][2] = RDiv(RMul(RMul(R(2), far), near), RSub(near, far))]

\* clip distances 0.1, 1, 2 and 100; aspect ratios 1 and 1280/720
Distances == {<<1, 10>>, R(1), R(2), R(100)}
Aspects == {R(1), <<16, 9>>}
Points == {<<R(0), R(0), R(-1)>>, <<R(1), R(0), R(0)>>, <<R(1), R(2), R(3)>>}

InitMath ==
    /\ MainLocals
    /\ fb = StaticBuffers.fb
    /\ db = StaticBuffers.db
    /\ acc = StaticBuffers.acc
    /\ pc = "args"
    /\ tris = << >>
    /\ ndrawn = 0
    /\ calls = << >>
    /\ frags = [i \in Pixels |-> {}]
    /\ nset = 0
    /\ args \in [fov : Fovs, aspect : Aspects, near : Distances, far : Distances,
                 angle : Angles, v : Points]
    /\ args.near # args.far
    /\ res = << >>

\* proj = perspective(fov, aspect, near, far), then proj * (0, 0, -near) and
\* proj * (0, 0, -far), with each copy of perspective
ApplyPerspective ==
    /\ pc = "args"
    /\ LET mh == perspective(args.fov, args.aspect, args.near, args.far)
           mr == perspective_renderer(args.fov, args.aspect, args.near, args.far)
           pn == <<R(0), R(0), RNeg(args.near)>>
           pf == <<R(0), R(0), RNeg(args.far)>>
       IN res' = [mat |-> mh, mat_renderer |-> mr,
                  at_near |-> MulPoint(mh, pn), at_far |-> MulPoint(mh, pf),
                  at_near_renderer |-> MulPoint(mr, pn),
                  at_far_renderer |-> MulPoint(mr, pf)]
    /\ pc' = "projected"
    /\ UNCHANGED args
    /\ UNCHANGED rasterVars
    /\ UNCHANGED loopVars

\* rotateY(angle) * v, with each copy of rotateY
ApplyRotateY ==
    /\ pc = "args"
    /\ LET mh == rotateY(args.angle)
           mr == rotateY_renderer(args.angle)
       IN res' = [mat |-> mh, mat_renderer |-> mr,
                  at_v |-> MulPoint(mh, args.v),
                  at_v_renderer |-> MulPoint(mr, args.v)]
    /\ pc' = "rotated"
    /\ UNCHANGED args
    /\ UNCHANGED rasterVars
    /\ UNCHANGED loopVars

NextMath == ApplyPerspective \/ ApplyRotateY

SpecMath == InitMath /\ [][NextMath]_vars

\* C7: for 0 < near < far, the matrix of perspective takes the view-space
\* point (0, 0, -near) to NDC z = -1 and (0, 0, -far) to NDC z = +1.
C7_PerspectiveDepthRange ==
    (pc = "projected" /\ DepthLess(R(0), args.near)
                      /\ DepthLess(args.near, args.far)) =>
        /\ res.at_near[3] = R(-1)
        /\ res.at_far[3] = R(1)
        /\ res.at_near_renderer[3] = R(-1)
        /\ res.at_far_renderer[3] = R(1)

\* the clip distances and aspect ratio main() uses: 0.1, 100, 1280/720
C7_Witness ==
    /\ pc = "projected"
    /\ args.near = <<1, 10>>
    /\ args.far = R(100)
    /\ args.aspect = <<16, 9>>
    /\ res.at_near[3] = R(-1)
    /\ res.at_far[3] = R(1)

\* C8: rotateY(angle) is the identity with cos at m[0][0] and m[2][2], +sin
\* at m[2][0] and -sin at m[0][2]; rotateY(pi/2) takes (0, 0, -1) to
\* (-1, 0, 0); the copy in renderer.cpp places the same four entries.
C8_RotateYConvention ==
    pc = "rotated" =>
        /\ \A col \in 0 .. 3, row \in 0 .. 3 :
              res.mat[col][row] =
                 CASE col = 0 /\ row = 0 -> cosf(args.angle)
                   [] col = 2 /\ row = 2 -> cosf(args.angle)
                   [] col = 2 /\ row = 0 -> sinf(args.angle)
                   [] col = 0 /\ row = 2 -> RNeg(sinf(args.angle))
                   [] OTHER -> IF col = row THEN R(1) ELSE R(0)
        /\ res.mat_renderer = res.mat
        /\ (args.angle = "pi/2" /\ args.v = <<R(0), R(0), R(-1)>>) =>
              /\ res.at_v = <<R(-1), R(0), R(0)>>
              /\ res.at_v_renderer = <<R(-1), R(0), R(0)>>

C8_Witness ==
    /\ pc = "rotated"
    /\ args.angle = "pi/2"
    /\ args.v = <<R(0), R(0), R(-1)>>
    /\ res.at_v = <<R(-1), R(0), R(0)>>

====
